---- MODULE Spec2Model ----
(***************************************************************************)
(* A model of billy/models/legislators.py: the Legislator document with    *)
(* its vote_role resolver, the committee back-reference table behind       *)
(* OldRole.committee_object, old_roles_manager and sessions_served.        *)
(*                                                                         *)
(* The module is Python 2 code: filter() returns a new list, and a dict    *)
(* lookup of a missing key raises KeyError.                                *)
(***************************************************************************)
EXTENDS Integers, Sequences, FiniteSets, TLC

\* ------------------------------------------------------------------ bounds
\* Longest list of historical roles a legislator carries (over all terms).
MaxRoles == 2
\* Dates are the integers 1..MaxDate (an order-preserving stand-in for the
\* datetime values of the documents).
MaxDate == 5

\* ------------------------------------------------------------ value spaces
Terms == {"t1", "t2"}
Chambers == {"upper", "lower"}
Dates == 1..MaxDate
\* The dates a stored role may carry; a role may also lack either field.
StartDates == {1, 3}
EndDates == {3, 5}

\* A historical role as the resolver reads it: a dict with 'chamber' and,
\* optionally, 'start_date' and 'end_date'.
ResolverRoles ==
    [chamber : Chambers]
    \cup [chamber : Chambers, start_date : StartDates]
    \cup [chamber : Chambers, end_date : EndDates]
    \cup [chamber : Chambers, start_date : StartDates, end_date : EndDates]

\* A vote as the resolver reads it: vote.bill()['_term'], vote['chamber'],
\* vote['date'].
Votes == [bill_term : Terms, chamber : Chambers, date : Dates]

\* All sequences over S of length at most n.
SeqsUpTo(S, n) == UNION {[1..k -> S] : k \in 0..n}

\* ------------------------------------------------------------------- state
VARIABLES
    active,           \* self['active']
    old_roles,        \* self['old_roles']: term -> list of roles
    vote,             \* self.vote, attached by the code that fetched the legislator
    vote_role_attr,   \* the instance's 'vote_role' slot written by CachedAttribute
    committees_attr,  \* the instance's '_old_roles_committees' slot
    builds,           \* how often the body of _old_roles_committees has run
    db_committees,    \* the _id values of the documents in db.committees
    self_roles,       \* self['roles']
    terms,            \* metadata['terms']
    session_details,  \* metadata['session_details']
    last              \* outcome of the latest call handed back to the caller

vars == <<active, old_roles, vote, vote_role_attr, committees_attr, builds,
          db_committees, self_roles, terms, session_details, last>>

resolver_frame == <<committees_attr, builds, db_committees, self_roles, terms, session_details>>

Unset == [set |-> FALSE]
NoAccess == [kind |-> "no access"]

\* The old_roles documents with at most n roles in all: the roles of `all`
\* split at k over the terms t1 and t2, either of which may be missing.
OldRolesDocs(R, n) ==
    {[t \in D |-> IF t = "t1" THEN SubSeq(all, 1, k) ELSE SubSeq(all, k + 1, Len(all))] :
        <<D, all, k>> \in {x \in (SUBSET Terms) \X SeqsUpTo(R, n) \X (0..n) :
            /\ x[3] <= Len(x[2])
            /\ ("t1" \notin x[1] => x[3] = 0)
            /\ ("t2" \notin x[1] => x[3] = Len(x[2]))}}

\* ------------------------------------------------------- Legislator.vote_role
\* filter(lambda role: role['chamber'] == chamber, roles): a new list.
filter_chamber(roles, chamber) ==
    SelectSeq(roles, LAMBDA role : role.chamber = chamber)

\* Mutant: the containment test admits the boundary dates.
in_range_inclusive(role, vote_date) ==
    /\ "start_date" \in DOMAIN role
    /\ "end_date" \in DOMAIN role
    /\ role.start_date <= vote_date
    /\ vote_date <= role.end_date

\* start_date = role.get('start_date'); end_date = role.get('end_date');
\* if start_date and end_date: if start_date < vote_date < end_date
in_range(role, vote_date) ==
    /\ "start_date" \in DOMAIN role
    /\ "end_date" \in DOMAIN role
    /\ role.start_date < vote_date
    /\ vote_date < role.end_date

\* for role in roles: ... return role   (falls off the end: None)
date_scan(roles, vote_date) ==
    LET hits == {i \in 1..Len(roles) : in_range(roles[i], vote_date)}
    IN  IF hits = {}
        THEN [kind |-> "None"]
        ELSE [kind |-> "role",
              role |-> roles[CHOOSE i \in hits : \A j \in hits : i <= j]]

\* Mutant: the 'active' shortcut is missing.
vote_role_no_active_shortcut(act, oroles, v) ==
    IF v.bill_term \notin DOMAIN oroles
    THEN [kind |-> "KeyError"]
    ELSE LET roles == filter_chamber(oroles[v.bill_term], v.chamber)
         IN  IF Len(roles) = 1
             THEN [kind |-> "role", role |-> roles[Len(roles)]]
             ELSE date_scan(roles, v.date)

\* Mutant: the single-candidate shortcut is missing, every candidate is
\* put to the date test.
vote_role_always_scans(act, oroles, v) ==
    IF act
    THEN [kind |-> "self"]
    ELSE IF v.bill_term \notin DOMAIN oroles
    THEN [kind |-> "KeyError"]
    ELSE date_scan(filter_chamber(oroles[v.bill_term], v.chamber), v.date)

\* Mutant: a missing term reads as an empty role list
\* (self['old_roles'].get(term, [])).
vote_role_missing_term_empty(act, oroles, v) ==
    IF act
    THEN [kind |-> "self"]
    ELSE LET stored == IF v.bill_term \in DOMAIN oroles
                       THEN oroles[v.bill_term] ELSE << >>
             roles == filter_chamber(stored, v.chamber)
         IN  IF Len(roles) = 1
             THEN [kind |-> "role", role |-> roles[Len(roles)]]
             ELSE date_scan(roles, v.date)

\* The method body: what it returns (or raises) for this legislator and vote.
vote_role(act, oroles, v) ==
    IF act
    THEN [kind |-> "self"]
    ELSE IF v.bill_term \notin DOMAIN oroles
    THEN [kind |-> "KeyError"]
    ELSE LET roles == filter_chamber(oroles[v.bill_term], v.chamber)
         IN  IF Len(roles) = 1
             THEN [kind |-> "role", role |-> roles[Len(roles)]]
             ELSE date_scan(roles, v.date)

\* Mutant: the candidates are filtered in place, so that roles.pop() takes
\* the single candidate out of the stored list.
old_roles_after_inplace_pop(act, oroles, v) ==
    IF act \/ v.bill_term \notin DOMAIN oroles
    THEN oroles
    ELSE LET kept == filter_chamber(oroles[v.bill_term], v.chamber)
         IN  [oroles EXCEPT ![v.bill_term] =
                 IF Len(kept) = 1 THEN << >> ELSE kept]

\* self['old_roles'] after the body ran: roles.pop() removes the candidate
\* from the list filter() built, never from the stored list.
old_roles_after(act, oroles, v) ==
    oroles

\* CachedAttribute.__get__: a value stored in the instance is handed back
\* without running the method; otherwise the method runs and its result is
\* stored under the method's name. An exception leaves nothing stored.
cached_get(slot, result) ==
    IF slot.set
    THEN [value |-> slot.val, slot |-> slot, ran |-> FALSE]
    ELSE IF result.kind \in {"KeyError"}
    THEN [value |-> result, slot |-> slot, ran |-> TRUE]
    ELSE [value |-> result, slot |-> [set |-> TRUE, val |-> result], ran |-> TRUE]

\* legislator.vote_role
VoteRoleAccess ==
    LET got == cached_get(vote_role_attr, vote_role(active, old_roles, vote))
    IN  /\ last' = got.value
        /\ vote_role_attr' = got.slot
        /\ old_roles' = IF got.ran
                        THEN old_roles_after(active, old_roles, vote)
                        ELSE old_roles
        /\ UNCHANGED <<active, vote>>
        /\ UNCHANGED resolver_frame

\* legislator.vote = vote, by the code that fetched the legislator for a vote
AttachVote ==
    \E v \in Votes :
        /\ v # vote
        /\ vote' = v
        /\ last' = NoAccess
        /\ UNCHANGED <<active, old_roles, vote_role_attr>>
        /\ UNCHANGED resolver_frame

\* A legislator document fetched for one vote.
Init ==
    /\ active \in BOOLEAN
    /\ old_roles \in OldRolesDocs(ResolverRoles, MaxRoles)
    /\ vote \in Votes
    /\ vote_role_attr = Unset
    /\ committees_attr = Unset
    /\ builds = 0
    /\ db_committees = {}
    /\ self_roles = << >>
    /\ terms = << >>
    /\ session_details = << >>
    /\ last = NoAccess

Next == VoteRoleAccess

Spec == Init /\ [][Next]_vars

NextMemo == VoteRoleAccess \/ AttachVote

SpecMemo == Init /\ [][NextMemo]_vars

\* ------------------------------------- OldRole.committee_object and its table
\* How often the body of a cached attribute may run before the model stops
\* counting.
MaxBuilds == 3

CommitteeIds == {"c1", "c2"}

\* A historical role as committee_object reads it: 'committee_id' may be
\* missing, and may be stored empty.
CommitteeRoles ==
    [chamber : {"upper"}]
    \cup [chamber : {"upper"}, committee_id : CommitteeIds \cup {""}]

\* ids: role.get('committee_id') of every role of every term, the empty
\* values dropped by filter(None, _ids). Only membership matters to $in.
old_roles_committee_ids(oroles) ==
    UNION {{oroles[term][i].committee_id :
               i \in {j \in 1..Len(oroles[term]) :
                         /\ "committee_id" \in DOMAIN oroles[term][j]
                         /\ oroles[term][j].committee_id # ""}} :
           term \in DOMAIN oroles}

\* The body of _old_roles_committees: the documents db.committees holds for
\* those ids, keyed by _id.
old_roles_committees(oroles, db) ==
    [kind |-> "table",
     table |-> [id \in old_roles_committee_ids(oroles) \cap db |-> [_id |-> id]]]

\* Mutant: the table is read before the role is asked for a committee_id.
committee_object_eager(role, slot, oroles, db) ==
    LET got == cached_get(slot, old_roles_committees(oroles, db))
    IN  IF "committee_id" \in DOMAIN role
        THEN [value |-> IF role.committee_id \in DOMAIN got.value.table
                        THEN [kind |-> "committee",
                              doc |-> got.value.table[role.committee_id]]
                        ELSE [kind |-> "None"],
              slot |-> got.slot, ran |-> got.ran]
        ELSE [value |-> [kind |-> "role", role |-> role],
              slot |-> got.slot, ran |-> got.ran]

\* OldRole.committee_object on a wrapped role of this legislator:
\* self.document._old_roles_committees.get(_id), or the role itself.
committee_object(role, slot, oroles, db) ==
    IF "committee_id" \in DOMAIN role
    THEN LET got == cached_get(slot, old_roles_committees(oroles, db))
         IN  [value |-> IF role.committee_id \in DOMAIN got.value.table
                        THEN [kind |-> "committee",
                              doc |-> got.value.table[role.committee_id]]
                        ELSE [kind |-> "None"],
              slot |-> got.slot, ran |-> got.ran]
    ELSE [value |-> [kind |-> "role", role |-> role], slot |-> slot, ran |-> FALSE]

committees_frame == <<active, old_roles, vote, vote_role_attr, self_roles, terms,
                      session_details>>

\* role.committee_object() for the role stored at position i of term t
CommitteeObject ==
    \E t \in DOMAIN old_roles :
        \E i \in 1..Len(old_roles[t]) :
            LET r == committee_object(old_roles[t][i], committees_attr,
                                      old_roles, db_committees)
            IN  /\ builds < MaxBuilds
                /\ last' = [kind |-> "committee_object", term |-> t, index |-> i,
                            value |-> r.value, ran |-> r.ran]
                /\ committees_attr' = r.slot
                /\ builds' = IF r.ran THEN builds + 1 ELSE builds
                /\ UNCHANGED db_committees
                /\ UNCHANGED committees_frame

\* Other code saves a committee to, or deletes it from, db.committees.
DbChange ==
    \E c \in CommitteeIds :
        /\ db_committees' = IF c \in db_committees
                            THEN db_committees \ {c}
                            ELSE db_committees \cup {c}
        /\ UNCHANGED <<committees_attr, builds, last>>
        /\ UNCHANGED committees_frame

\* self.vote where no claim reads it.
DefaultVote == [bill_term |-> "t1", chamber |-> "upper", date |-> 1]

InitCommittees ==
    /\ active = FALSE
    /\ old_roles \in OldRolesDocs(CommitteeRoles, MaxRoles)
    /\ vote = DefaultVote
    /\ vote_role_attr = Unset
    /\ committees_attr = Unset
    /\ builds = 0
    /\ db_committees \in SUBSET CommitteeIds
    /\ self_roles = << >>
    /\ terms = << >>
    /\ session_details = << >>
    /\ last = NoAccess

NextCommittees == CommitteeObject \/ DbChange

SpecCommittees == InitCommittees /\ [][NextCommittees]_vars

\* -------------------------------------------------- Legislator.old_roles_manager
\* Longest list of historical roles in the documents that are grouped.
MaxGroupRoles == 3

\* role['type'] as a string of characters: 'm', 'c m' and 'C M' stand for
\* 'member', 'committee member' and 'Committee Member'.
Types == {<<"m">>, <<"c", " ", "m">>, <<"C", " ", "M">>}

GroupingRoles == [chamber : Chambers, type : Types]

\* str.lower() and str.replace(' ', '_'), character by character.
lower(ch) == CASE ch = "C" -> "c" [] ch = "M" -> "m" [] OTHER -> ch
replace_space(ch) == IF ch = " " THEN "_" ELSE ch

\* typeslug = role['type'].lower().replace(' ', '_')
type_slug(type) == [i \in 1..Len(type) |-> replace_space(lower(type[i]))]

\* wrapper(role): an OldRole holding the role's items, whose class attribute
\* `document` is this legislator.
wrapper(role) == [item |-> role, document |-> "self"]

\* itertools.groupby(roles, chamber_getter): the runs of consecutive roles
\* of equal chamber, each with its key.
RECURSIVE groupby(_)
groupby(rs) ==
    IF rs = << >>
    THEN << >>
    ELSE LET rest == groupby(Tail(rs))
         IN  IF rest # << >> /\ rest[1].key = Head(rs).chamber
             THEN <<[key |-> rest[1].key, group |-> <<Head(rs)>> \o rest[1].group]>>
                      \o Tail(rest)
             ELSE <<[key |-> Head(rs).chamber, group |-> <<Head(rs)>>]>> \o rest

\* Mutant: the role list of a chamber and type is assigned, not appended to.
append_role_assign(chamber_roles, chamber, typeslug, role) ==
    LET inner == IF chamber \in DOMAIN chamber_roles
                 THEN chamber_roles[chamber] ELSE << >>
        inner2 == [s \in DOMAIN inner \cup {typeslug} |->
                      IF s = typeslug THEN <<role>> ELSE inner[s]]
    IN  [c \in DOMAIN chamber_roles \cup {chamber} |->
            IF c = chamber THEN inner2 ELSE chamber_roles[c]]

\* chamber_roles[chamber][typeslug].append(role) on a
\* defaultdict(lambda: defaultdict(list)): missing keys come into being.
append_role(chamber_roles, chamber, typeslug, role) ==
    LET inner == IF chamber \in DOMAIN chamber_roles
                 THEN chamber_roles[chamber] ELSE << >>
        lst == IF typeslug \in DOMAIN inner THEN inner[typeslug] ELSE << >>
        inner2 == [s \in DOMAIN inner \cup {typeslug} |->
                      IF s = typeslug THEN Append(lst, role) ELSE inner[s]]
    IN  [c \in DOMAIN chamber_roles \cup {chamber} |->
            IF c = chamber THEN inner2 ELSE chamber_roles[c]]

\* for role in roles: role = wrapper(role); ...append(role)
RECURSIVE append_group(_, _, _)
append_group(chamber_roles, chamber, group) ==
    IF group = << >>
    THEN chamber_roles
    ELSE append_group(
             append_role(chamber_roles, chamber, type_slug(Head(group).type),
                         wrapper(Head(group))),
             chamber, Tail(group))

\* for chamber, roles in itertools.groupby(roles, chamber_getter): ...
RECURSIVE collect_groups(_, _)
collect_groups(chamber_roles, groups) ==
    IF groups = << >>
    THEN chamber_roles
    ELSE collect_groups(
             append_group(chamber_roles, groups[1].key, groups[1].group),
             Tail(groups))

\* The chamber_roles yielded for one term.
chamber_roles_of(rs) == collect_groups(<< >>, groupby(rs))

\* Everything the generator yields: term -> chamber_roles.
old_roles_manager(oroles) ==
    [term \in DOMAIN oroles |-> chamber_roles_of(oroles[term])]

\* list(legislator.old_roles_manager())
OldRolesManager ==
    /\ last' = [kind |-> "grouped", out |-> old_roles_manager(old_roles)]
    /\ UNCHANGED <<active, old_roles, vote, vote_role_attr>>
    /\ UNCHANGED resolver_frame

InitGrouping ==
    /\ active = FALSE
    /\ old_roles \in OldRolesDocs(GroupingRoles, MaxGroupRoles)
    /\ vote = DefaultVote
    /\ vote_role_attr = Unset
    /\ committees_attr = Unset
    /\ builds = 0
    /\ db_committees = {}
    /\ self_roles = << >>
    /\ terms = << >>
    /\ session_details = << >>
    /\ last = NoAccess

NextGrouping == OldRolesManager

SpecGrouping == InitGrouping /\ [][NextGrouping]_vars

\* ---------------------------------------------------- Legislator.sessions_served
\* Longest metadata['terms'], longest term['sessions'], longest self['roles'].
MaxTerms == 2
MaxSessions == 2
MaxServedRoles == 2

\* Term names and session identifiers are strings of one namespace.
Names == {"n1", "n2", "n3"}
RoleTypes == {"member", "committee member"}

ServedRoles == [type : RoleTypes, term : Names]
TermDefs == [name : Names, sessions : SeqsUpTo(Names, MaxSessions)]

\* What a generator has yielded when it ends, and whether it ended by raising.
Yielded(out) == [out |-> out, raised |-> FALSE]
Raised == [out |-> << >>, raised |-> TRUE]
\* A generator that goes on with `more` unless `first` raised.
then(first, more) ==
    IF first.raised
    THEN first
    ELSE [out |-> first.out \o more.out, raised |-> more.raised]

\* for session in term['sessions']:
\*     details = session_details[session]; yield details['display_name']
RECURSIVE yield_sessions(_, _)
yield_sessions(sessions, details) ==
    IF sessions = << >>
    THEN Yielded(<< >>)
    ELSE IF Head(sessions) \notin DOMAIN details
    THEN Raised
    ELSE then(Yielded(<<details[Head(sessions)].display_name>>),
              yield_sessions(Tail(sessions), details))

\* for term in terms: if term['name'] == term_name: ...
RECURSIVE scan_terms(_, _, _)
scan_terms(ts, term_name, details) ==
    IF ts = << >>
    THEN Yielded(<< >>)
    ELSE then(IF Head(ts).name = term_name
              THEN yield_sessions(Head(ts).sessions, details)
              ELSE Yielded(<< >>),
              scan_terms(Tail(ts), term_name, details))

\* The loop body for one role: try session_details[term_name], on KeyError
\* go through the terms.
role_sessions(role, ts, details) ==
    IF role.type # "member"
    THEN Yielded(<< >>)
    ELSE IF role.term \in DOMAIN details
    THEN Yielded(<<details[role.term].display_name>>)
    ELSE scan_terms(ts, role.term, details)

\* list(legislator.sessions_served()), or what was yielded before it raised.
RECURSIVE sessions_served(_, _, _)
sessions_served(rs, ts, details) ==
    IF rs = << >>
    THEN Yielded(<< >>)
    ELSE then(role_sessions(Head(rs), ts, details),
              sessions_served(Tail(rs), ts, details))

SessionsServed ==
    /\ last' = [kind |-> "sessions",
                result |-> sessions_served(self_roles, terms, session_details)]
    /\ UNCHANGED <<active, old_roles, vote, vote_role_attr>>
    /\ UNCHANGED resolver_frame

InitSessions ==
    /\ active = FALSE
    /\ old_roles = << >>
    /\ vote = DefaultVote
    /\ vote_role_attr = Unset
    /\ committees_attr = Unset
    /\ builds = 0
    /\ db_committees = {}
    /\ self_roles \in SeqsUpTo(ServedRoles, MaxServedRoles)
    /\ terms \in {ts \in SeqsUpTo(TermDefs, MaxTerms) :
                     \A i, j \in 1..Len(ts) : ts[i].name = ts[j].name => i = j}
    /\ session_details \in
           {[n \in D |-> [display_name |-> <<"display name of", n>>]] :
               D \in SUBSET Names}
    /\ last = NoAccess

NextSessions == SessionsServed

SpecSessions == InitSessions /\ [][NextSessions]_vars

\* ------------------------------------------------------------ resolver claims
\* The stored roles of the vote's term, and the positions of those of the
\* vote's chamber.
TermRoles == old_roles[vote.bill_term]
Matching == {i \in 1..Len(TermRoles) : TermRoles[i].chamber = vote.chamber}
Containing ==
    {i \in Matching :
        /\ {"start_date", "end_date"} \subseteq DOMAIN TermRoles[i]
        /\ TermRoles[i].start_date < vote.date
        /\ vote.date < TermRoles[i].end_date}
Accessed == last # NoAccess
HasTerm == vote.bill_term \in DOMAIN old_roles
IsRole(r) == last = [kind |-> "role", role |-> r]

\* C1: an active legislator's vote_role is the legislator's own record, for
\* every vote and every old_roles, also when the vote's term is not a key of
\* old_roles.
C1_ActiveReturnsSelf ==
    (Accessed /\ active) => last = [kind |-> "self"]

C1_Witness ==
    /\ Accessed
    /\ active
    /\ ~HasTerm
    /\ last.kind = "self"

\* C2: for an inactive legislator with exactly one role of the vote's
\* chamber under the vote's term, vote_role is that role, whatever its dates.
C2_SingleCandidateReturned ==
    (Accessed /\ ~active /\ HasTerm /\ Cardinality(Matching) = 1)
        => \A i \in Matching : IsRole(TermRoles[i])

C2_Witness ==
    /\ Accessed
    /\ ~active
    /\ HasTerm
    /\ Cardinality(Matching) = 1
    /\ Len(TermRoles) > 1
    /\ Containing = {}
    /\ last.kind = "role"

\* C3: for an inactive legislator with no or several roles of the vote's
\* chamber under the vote's term, vote_role is the first such role, in stored
\* order, that has both dates and start_date < vote date < end_date, and
\* None when there is no such role.
C3_FirstContainingRole ==
    (Accessed /\ ~active /\ HasTerm /\ Cardinality(Matching) # 1)
        => IF Containing = {}
           THEN last = [kind |-> "None"]
           ELSE \E i \in Containing :
                    /\ \A j \in Containing : i <= j
                    /\ IsRole(TermRoles[i])

C3_Witness ==
    /\ Accessed
    /\ ~active
    /\ HasTerm
    /\ \E i \in Containing, j \in Containing :
           /\ i < j
           /\ TermRoles[i] # TermRoles[j]
           /\ IsRole(TermRoles[i])

\* C3, the boundary case: a vote dated on the start_date of one candidate and
\* the end_date of the other resolves to None.
C3_BoundaryReached ==
    /\ Accessed
    /\ ~active
    /\ HasTerm
    /\ \E i \in Matching, j \in Matching :
           /\ "start_date" \in DOMAIN TermRoles[i]
           /\ "end_date" \in DOMAIN TermRoles[i]
           /\ TermRoles[i].start_date = vote.date
           /\ "start_date" \in DOMAIN TermRoles[j]
           /\ "end_date" \in DOMAIN TermRoles[j]
           /\ TermRoles[j].end_date = vote.date
    /\ last = [kind |-> "None"]

\* C4: for an inactive legislator whose old_roles has no entry for the vote's
\* term, vote_role raises (KeyError), and hands back neither a role nor None.
C4_MissingTermRaises ==
    (Accessed /\ ~active /\ ~HasTerm) => last = [kind |-> "KeyError"]

C4_Witness ==
    /\ Accessed
    /\ ~active
    /\ ~HasTerm
    /\ DOMAIN old_roles # {}
    /\ last.kind = "KeyError"

\* C5 (as claimed): every vote_role access returns the resolution of the
\* vote that is attached to the instance at the time of the access.
C5_AccessResolvesAttachedVote ==
    Accessed => last = vote_role(active, old_roles, vote)

\* C10: no vote_role evaluation changes old_roles: the same terms with the
\* same roles in the same order, on every path.
C10_OldRolesUnchanged ==
    [][old_roles' = old_roles]_vars

C10_Witness ==
    /\ Accessed
    /\ ~active
    /\ HasTerm
    /\ Cardinality(Matching) = 1
    /\ last.kind = "role"
    /\ vote_role_attr.set

\* ----------------------------------------------------------- committee claims
\* The committee_id values stored in old_roles.
StoredCommitteeIds ==
    UNION {{old_roles[t][i].committee_id :
               i \in {j \in 1..Len(old_roles[t]) :
                         "committee_id" \in DOMAIN old_roles[t][j]}} :
           t \in DOMAIN old_roles}
LastHadCommitteeId ==
    /\ last.kind = "committee_object"
    /\ "committee_id" \in DOMAIN old_roles[last.term][last.index]

\* C6: over any sequence of committee_object() calls, the table behind
\* _old_roles_committees is built at most once; the call that builds it is a
\* call on a role with a committee_id, and every such call finds it built;
\* it holds the committees db.committees has, at that moment, for the
\* committee_id values of all roles of old_roles; once built it never changes.
C6_TableBuiltOnce ==
    /\ [](/\ builds <= 1
          /\ committees_attr.set <=> builds = 1
          /\ LastHadCommitteeId => committees_attr.set)
    /\ [][/\ committees_attr.set => committees_attr' = committees_attr
          /\ builds' # builds =>
                /\ last'.kind = "committee_object"
                /\ "committee_id" \in DOMAIN old_roles[last'.term][last'.index]
                /\ DOMAIN committees_attr'.val.table
                       = StoredCommitteeIds \cap db_committees]_vars

C6_Witness ==
    /\ builds = 1
    /\ LastHadCommitteeId
    /\ ~last.ran
    /\ last.value.kind = "None"
    /\ old_roles[last.term][last.index].committee_id \in db_committees
    /\ \E t \in DOMAIN old_roles : \E i \in 1..Len(old_roles[t]) :
           "committee_id" \notin DOMAIN old_roles[t][i]

\* ------------------------------------------------------------ grouping claims
Grouped == last.kind = "grouped"
\* The role list rs in the order given by the permutation p of its positions.
Permuted(rs, p) == [i \in 1..Len(rs) |-> rs[p[i]]]
Count(x, list) == Cardinality({i \in 1..Len(list) : list[i] = x})
SameRoles(a, b) ==
    /\ Len(a) = Len(b)
    /\ \A i \in 1..Len(a) : Count(a[i], a) = Count(a[i], b)
\* The wrapped roles of rs that have this chamber and type slug, in the order
\* of rs.
RolesOf(rs, chamber, slug) ==
    LET picked == SelectSeq(rs, LAMBDA r : r.chamber = chamber /\ type_slug(r.type) = slug)
    IN  [i \in 1..Len(picked) |-> wrapper(picked[i])]

\* C7 (as claimed): for every term and every permutation of its role list,
\* old_roles_manager yields equal chamber -> type_slug -> role list mappings,
\* the role lists being equal lists.
C7_EqualListsForEveryOrder ==
    Grouped =>
        \A t \in DOMAIN old_roles :
            \A p \in Permutations(1..Len(old_roles[t])) :
                chamber_roles_of(Permuted(old_roles[t], p)) = last.out[t]

\* C7 (amended): for every term, the roles of one chamber are collected under
\* one chamber key whether or not they are adjacent, each role appears exactly
\* once, under its chamber and type_slug, in the order of the input; and for
\* every permutation of the term's role list the chamber keys and type_slug
\* keys are the same and each role list holds the same roles, each as often.
C7_SameRolesForEveryOrder ==
    Grouped =>
        \A t \in DOMAIN old_roles :
            LET rs == old_roles[t]
                out == last.out[t]
            IN  /\ DOMAIN out = {rs[i].chamber : i \in 1..Len(rs)}
                /\ \A c \in DOMAIN out :
                       /\ DOMAIN out[c] =
                              {type_slug(rs[i].type) :
                                  i \in {j \in 1..Len(rs) : rs[j].chamber = c}}
                       /\ \A sl \in DOMAIN out[c] : out[c][sl] = RolesOf(rs, c, sl)
                /\ \A p \in Permutations(1..Len(rs)) :
                       LET other == chamber_roles_of(Permuted(rs, p))
                       IN  /\ DOMAIN other = DOMAIN out
                           /\ \A c \in DOMAIN out :
                                  /\ DOMAIN other[c] = DOMAIN out[c]
                                  /\ \A sl \in DOMAIN out[c] :
                                         SameRoles(other[c][sl], out[c][sl])

\* Roles of one chamber that are not adjacent, two of them different roles of
\* one type slug, have been grouped.
C7_Witness ==
    /\ Grouped
    /\ \E t \in DOMAIN old_roles :
           \E i, j, k \in 1..Len(old_roles[t]) :
               LET rs == old_roles[t]
               IN  /\ i < j
                   /\ j < k
                   /\ rs[i].chamber = rs[k].chamber
                   /\ rs[j].chamber # rs[i].chamber
                   /\ rs[i] # rs[k]
                   /\ type_slug(rs[i].type) = type_slug(rs[k].type)
                   /\ Len(last.out[t][rs[i].chamber][type_slug(rs[i].type)]) = 2

\* ------------------------------------------------------------ sessions claims
Served == last.kind = "sessions"
\* The positions in metadata['terms'] of the term called name.
TermsNamed(name) == {i \in 1..Len(terms) : terms[i].name = name}
DisplayNames(sessions) ==
    [j \in 1..Len(sessions) |-> session_details[sessions[j]].display_name]

\* C8 (as claimed): for a 'member' role of a term the metadata defines, all
\* of whose sessions have session_details, sessions_served yields the display
\* names of exactly the term's sessions, in their order.
C8_ExactlyTheTermsSessions ==
    (/\ Served
     /\ Len(self_roles) = 1
     /\ self_roles[1].type = "member")
        => \A i \in TermsNamed(self_roles[1].term) :
               (/\ terms[i].sessions # << >>
                /\ \A j \in 1..Len(terms[i].sessions) :
                       terms[i].sessions[j] \in DOMAIN session_details)
                   => last.result = Yielded(DisplayNames(terms[i].sessions))

\* C9 (as claimed): sessions_served never raises: an unknown term and a
\* session without session_details yield nothing.
C9_NeverRaises ==
    Served => ~last.result.raised

====
